---- MODULE Spec2Model ----
(***************************************************************************)
(* env-types-validator: validation of environment variables against a     *)
(* schema of type descriptors (index.ts: parseTypeString, validateValue,  *)
(* createEnvValidator, defineEnv, validateEnv).                            *)
(*                                                                         *)
(* A JavaScript string is a sequence of pieces.  The strings a caller     *)
(* supplies (keys, type descriptors, raw values) are sequences of single  *)
(* characters, so that endsWith, slice, toLowerCase and the comparisons   *)
(* of the source act on them character by character.  A string literal of *)
(* the source inside a message is kept as one piece.                      *)
(*                                                                         *)
(* A JavaScript value is a record [kind, val]: kind is the value's type   *)
(* and val a sequence holding its payload.                                 *)
(***************************************************************************)
EXTENDS Integers, Sequences, FiniteSets, TLC

VARIABLES
    schema,        \* Object.entries(schema): sequence of [key, typeStr]
    env,           \* own properties of the environment object: key -> string
    pc,            \* "ready" before the call, "done" after it
    fn,            \* the exported function that was called
    options,       \* the options bundle of the call
    errors,        \* the local `errors` when the call ended
    values,        \* the local `values` when the call ended
    outcome,       \* "none", "returned", "Error" (composite), "TypeError"
    ret,           \* what the caller received
    message,       \* message of the raised composite Error
    onErrorCalls,  \* arguments of every onError invocation, in order
    events         \* observable effects of the call, in order

vars == <<schema, env, pc, fn, options, errors, values, outcome, ret,
          message, onErrorCalls, events>>

----------------------------------------------------------------------------
(* Bounds of the model *)

\* longest schema of the multi-key inputs
MaxKeys == 2

----------------------------------------------------------------------------
(* JavaScript values *)

Undefined == [kind |-> "undefined", val |-> <<>>]
StringValue(s) == [kind |-> "string", val |-> s]
NumberValue(n) == [kind |-> "number", val |-> <<n>>]
BooleanValue(b) == [kind |-> "boolean", val |-> <<b>>]
NullValue == [kind |-> "null", val |-> <<>>]
\* a method inherited from Object.prototype (e.g. Object.prototype.toString)
FunctionValue(name) == [kind |-> "function", val |-> name]
\* Object.prototype itself, what the accessor __proto__ of a plain object reads
ObjectPrototype == [kind |-> "object", val |-> <<"Object.prototype">>]

\* keys of the schema and of the environment
KeyA == <<"A">>
KeyB == <<"B">>
KeyToString == <<"t", "o", "S", "t", "r", "i", "n", "g">>
Keys == {KeyA, KeyB, KeyToString}
\* a schema may own the key __proto__ (a computed key, or JSON.parse)
KeyProto == <<"_", "_", "p", "r", "o", "t", "o", "_", "_">>
SchemaKeys == Keys \cup {KeyProto}

\* names every plain object (and process.env) inherits from Object.prototype
ObjectPrototypeKeys == {KeyToString}

\* env[key]: an own property, else the inherited one, else undefined
Get(e, key) ==
    IF key \in DOMAIN e THEN StringValue(e[key])
    ELSE IF key \in ObjectPrototypeKeys THEN FunctionValue(key)
    ELSE IF key = KeyProto THEN ObjectPrototype
    ELSE Undefined

\* values[key] = v on a plain object: an own property, except that the key
\* __proto__ reaches the setter of Object.prototype, which makes no own
\* property (v is undefined or Object.prototype here: nothing changes)
Put(vals, key, v) ==
    IF key = KeyProto THEN vals
    ELSE [k \in (DOMAIN vals) \cup {key} |-> IF k = key THEN v ELSE vals[k]]

\* !value
Falsy(v) ==
    \/ v.kind = "undefined"
    \/ v.kind = "null"
    \/ (v.kind = "string" /\ v.val = <<>>)
    \/ (v.kind = "number" /\ (v.val = <<>> \/ v.val = <<0>>))
    \/ (v.kind = "boolean" /\ v.val = <<FALSE>>)

\* `${value}` inside a template literal
TemplateString(v) ==
    CASE v.kind = "string" -> v.val
      [] v.kind = "undefined" -> <<"undefined">>
      [] v.kind = "function" -> <<"function ">> \o v.val \o <<"() { [native code] }">>
      [] v.kind = "object" -> <<"[object Object]">>
      [] OTHER -> <<"?">>

----------------------------------------------------------------------------
(* Characters and strings *)

UpperCase == <<"A","B","C","D","E","F","G","H","I","J","K","L","M",
               "N","O","P","Q","R","S","T","U","V","W","X","Y","Z">>
LowerCase == <<"a","b","c","d","e","f","g","h","i","j","k","l","m",
               "n","o","p","q","r","s","t","u","v","w","x","y","z">>
Digits == <<"0","1","2","3","4","5","6","7","8","9">>

ToLowerChar(c) ==
    IF \E i \in 1..26 : UpperCase[i] = c
    THEN LowerCase[CHOOSE i \in 1..26 : UpperCase[i] = c]
    ELSE c

\* String.prototype.toLowerCase
ToLowerCase(s) == [i \in 1..Len(s) |-> ToLowerChar(s[i])]

\* String.prototype.endsWith with a one-character argument
EndsWith(s, c) == Len(s) > 0 /\ s[Len(s)] = c

\* s.slice(0, -1)
SliceDropLast(s) == SubSeq(s, 1, Len(s) - 1)

IsDigit(c) == \E i \in 1..10 : Digits[i] = c
DigitValue(c) == (CHOOSE i \in 1..10 : Digits[i] = c) - 1

RECURSIVE DecimalValue(_)
DecimalValue(s) ==
    IF s = <<>> THEN 0
    ELSE 10 * DecimalValue(SubSeq(s, 1, Len(s) - 1)) + DigitValue(s[Len(s)])

AllDigits(s) == Len(s) > 0 /\ \A i \in 1..Len(s) : IsDigit(s[i])

\* Number(value) on a string of letters and digits without an exponent,
\* radix prefix or "Infinity": the decimal value of an all-digit string, NaN
\* otherwise.  A function or an object converts to NaN.
NaN == [kind |-> "number", val |-> <<>>]
Number(v) ==
    IF v.kind = "string" /\ AllDigits(v.val)
    THEN NumberValue(DecimalValue(v.val))
    ELSE NaN
isNaN(n) == n = NaN

\* JSON.parse(value) on the same strings: the literals true, false, null and
\* the integers without a leading zero parse, everything else is a
\* SyntaxError.  A function or an object is first converted to a string
\* (its source text, "[object Object]"), which is no JSON document.
JSONParse(v) ==
    LET s == v.val IN
    IF v.kind # "string" THEN [ok |-> FALSE, parsed |-> Undefined]
    ELSE IF s = <<"t","r","u","e">> THEN [ok |-> TRUE, parsed |-> BooleanValue(TRUE)]
    ELSE IF s = <<"f","a","l","s","e">> THEN [ok |-> TRUE, parsed |-> BooleanValue(FALSE)]
    ELSE IF s = <<"n","u","l","l">> THEN [ok |-> TRUE, parsed |-> NullValue]
    ELSE IF AllDigits(s) /\ (Len(s) = 1 \/ s[1] # "0")
         THEN [ok |-> TRUE, parsed |-> NumberValue(DecimalValue(s))]
    ELSE [ok |-> FALSE, parsed |-> Undefined]

----------------------------------------------------------------------------
(* parseTypeString and validateValue *)

parseTypeString(typeStr) ==
    LET isOptional == EndsWith(typeStr, "?")
        baseType == IF isOptional THEN SliceDropLast(typeStr) ELSE typeStr
    IN [type |-> baseType, optional |-> isOptional]

T_string == <<"s","t","r","i","n","g">>
T_number == <<"n","u","m","b","e","r">>
T_boolean == <<"b","o","o","l","e","a","n">>
T_json == <<"j","s","o","n">>

S_true == <<"t","r","u","e">>
S_false == <<"f","a","l","s","e">>

Quoted(v) == <<"\"">> \o TemplateString(v) \o <<"\"">>

BooleanReason(v) ==
    Quoted(v) \o <<" is not a valid boolean (use 'true', 'false', '1', or '0')">>
NumberReason(v) == Quoted(v) \o <<" is not a valid number">>
JsonReason(v) == Quoted(v) \o <<" is not valid JSON">>
UnknownTypeReason(expectedType) == <<"Unknown type: ">> \o expectedType
EmptyReason == <<"Value is empty or undefined">>

Valid(parsed) ==
    [valid |-> TRUE, parsed |-> parsed, reason |-> <<>>, raised |-> FALSE]
Invalid(reason) ==
    [valid |-> FALSE, parsed |-> Undefined, reason |-> reason, raised |-> FALSE]
\* value.toLowerCase is not a function
RaisedTypeError ==
    [valid |-> FALSE, parsed |-> Undefined, reason |-> <<>>, raised |-> TRUE]

\* seeded fault: the comparisons without toLowerCase
validateBoolean_CaseSensitive(value) ==
    IF value.val = S_true \/ value.val = <<"1">>
    THEN Valid(BooleanValue(TRUE))
    ELSE IF value.val = S_false \/ value.val = <<"0">>
    THEN Valid(BooleanValue(FALSE))
    ELSE Invalid(BooleanReason(value))

\* case 'boolean' of validateValue, on a string
validateBoolean(value) ==
    IF ToLowerCase(value.val) = S_true \/ value.val = <<"1">>
    THEN Valid(BooleanValue(TRUE))
    ELSE IF ToLowerCase(value.val) = S_false \/ value.val = <<"0">>
    THEN Valid(BooleanValue(FALSE))
    ELSE Invalid(BooleanReason(value))

\* case 'string' of validateValue
validateString(value) == Valid(value)

validateValue(value, expectedType) ==
    IF value.kind = "undefined" \/ (value.kind = "string" /\ value.val = <<>>)
    THEN Invalid(EmptyReason)
    ELSE CASE expectedType = T_string -> validateString(value)
           [] expectedType = T_number ->
                IF isNaN(Number(value)) THEN Invalid(NumberReason(value))
                ELSE Valid(Number(value))
           [] expectedType = T_boolean ->
                IF value.kind # "string" THEN RaisedTypeError
                ELSE validateBoolean(value)
           [] expectedType = T_json ->
                IF JSONParse(value).ok THEN Valid(JSONParse(value).parsed)
                ELSE Invalid(JsonReason(value))
           [] OTHER -> Invalid(UnknownTypeReason(expectedType))

----------------------------------------------------------------------------
(* The per-key loops *)

ErrorRecord(key, typeStr, value, reason) ==
    [key |-> key, expected |-> typeStr, received |-> value, reason |-> reason]

\* validation.reason || 'Validation failed'
ReasonOr(reason) == IF reason = <<>> THEN <<"Validation failed">> ELSE reason

CreateMissingReason(key) ==
    <<"Required environment variable \"">> \o key \o <<"\" is missing">>
ValidateMissingReason(key) ==
    <<"Required: \"">> \o key \o <<"\" is missing">>

\* the locals of a call: errors, values, and whether an exception left the loop
EmptyLocals == [errors |-> <<>>, values |-> <<>>, raised |-> FALSE]

\* seeded fault: an absent optional key is skipped without an entry
createEnvValidatorBody_SkipOptional(entry, e, st) ==
    LET key == entry.key
        typeStr == entry.typeStr
        p == parseTypeString(typeStr)
        value == Get(e, key)
        validation == validateValue(value, p.type)
    IN  IF Falsy(value) /\ ~p.optional
        THEN [st EXCEPT !.errors = Append(@,
                ErrorRecord(key, typeStr, value, CreateMissingReason(key)))]
        ELSE IF Falsy(value) /\ p.optional
        THEN st
        ELSE IF validation.raised
        THEN [st EXCEPT !.raised = TRUE]
        ELSE IF ~validation.valid
        THEN [st EXCEPT !.errors = Append(@,
                ErrorRecord(key, typeStr, value, ReasonOr(validation.reason)))]
        ELSE [st EXCEPT !.values = Put(@, key, validation.parsed)]

\* one iteration of the loop of createEnvValidator
createEnvValidatorBody(entry, e, st) ==
    LET key == entry.key
        typeStr == entry.typeStr
        p == parseTypeString(typeStr)
        value == Get(e, key)
        validation == validateValue(value, p.type)
    IN  IF Falsy(value) /\ ~p.optional
        THEN [st EXCEPT !.errors = Append(@,
                ErrorRecord(key, typeStr, value, CreateMissingReason(key)))]
        ELSE IF Falsy(value) /\ p.optional
        THEN [st EXCEPT !.values = Put(@, key, Undefined)]
        ELSE IF validation.raised
        THEN [st EXCEPT !.raised = TRUE]
        ELSE IF ~validation.valid
        THEN [st EXCEPT !.errors = Append(@,
                ErrorRecord(key, typeStr, value, ReasonOr(validation.reason)))]
        ELSE [st EXCEPT !.values = Put(@, key, validation.parsed)]

RECURSIVE createEnvValidatorLoop(_, _, _, _)
createEnvValidatorLoop(sch, e, i, st) ==
    IF i > Len(sch) \/ st.raised THEN st
    ELSE createEnvValidatorLoop(sch, e, i + 1, createEnvValidatorBody(sch[i], e, st))

\* one iteration of the loop of validateEnv
validateEnvBody(entry, e, st) ==
    LET key == entry.key
        typeStr == entry.typeStr
        p == parseTypeString(typeStr)
        value == Get(e, key)
        validation == validateValue(value, p.type)
    IN  IF Falsy(value) /\ ~p.optional
        THEN [st EXCEPT !.errors = Append(@,
                ErrorRecord(key, typeStr, value, ValidateMissingReason(key)))]
        ELSE IF Falsy(value) /\ p.optional
        THEN [st EXCEPT !.values = Put(@, key, Undefined)]
        ELSE IF validation.raised
        THEN [st EXCEPT !.raised = TRUE]
        ELSE IF ~validation.valid
        THEN [st EXCEPT !.errors = Append(@,
                ErrorRecord(key, typeStr, value, ReasonOr(validation.reason)))]
        ELSE [st EXCEPT !.values = Put(@, key, validation.parsed)]

RECURSIVE validateEnvLoop(_, _, _, _)
validateEnvLoop(sch, e, i, st) ==
    IF i > Len(sch) \/ st.raised THEN st
    ELSE validateEnvLoop(sch, e, i + 1, validateEnvBody(sch[i], e, st))

----------------------------------------------------------------------------
(* The message of the composite error *)

\* `  * ${e.key}: ${e.reason}` (the bullet is U+2022)
ErrorLine(e) == <<"  \\u2022 ">> \o e.key \o <<": ">> \o e.reason

\* errors.map(...).join('\n')
RECURSIVE JoinLines(_, _)
JoinLines(errs, i) ==
    IF i > Len(errs) THEN <<>>
    ELSE IF i = Len(errs) THEN ErrorLine(errs[i])
    ELSE ErrorLine(errs[i]) \o <<"\n">> \o JoinLines(errs, i + 1)

Header == <<"Environment validation failed:">>
FullMessage(errs) == Header \o <<"\n">> \o JoinLines(errs, 1)

----------------------------------------------------------------------------
(* Inputs *)

T_int == <<"i","n","t">>

\* descriptors of the single-key inputs: every base tag of the source, an
\* unrecognized one and the empty one, with zero, one or two trailing '?'
BaseTags == {T_string, T_number, T_boolean, T_json, T_int, <<>>}
WideTypeStrs ==
    BaseTags \cup {t \o <<"?">> : t \in BaseTags}
             \cup {t \o <<"?", "?">> : t \in BaseTags}

\* raw values of the single-key inputs
WideRaw ==
    { <<>>, S_true, <<"T","R","U","E">>, <<"T","r","u","e">>,
      S_false, <<"F","A","L","S","E">>, <<"1">>, <<"0">>, <<"1","0">>,
      <<"0","1">>, <<"m","a","y","b","e">>, <<"n","u","l","l">> }

\* descriptors and raw values of the multi-key inputs
NarrowTypeStrs == {T_string, T_boolean, T_number \o <<"?">>, T_int}
NarrowRaw == { <<>>, <<"x">> }

Injective(f) == \A i, j \in DOMAIN f : f[i] = f[j] => i = j

\* Object.entries of the schemas with n entries: the keys of an object are
\* distinct
Schemas(n, typeStrs) ==
    { [i \in 1..n |-> [key |-> ks[i], typeStr |-> ts[i]]] :
        ks \in {f \in [1..n -> SchemaKeys] : Injective(f)}, ts \in [1..n -> typeStrs] }

\* environment objects whose own keys are among Keys
Envs(raw) == UNION { [S -> raw] : S \in SUBSET Keys }

OptionBundles ==
    [throwOnError : {"unset", "true", "false"}, onError : {"unset", "supplied"}]
NoOptions == [throwOnError |-> "unset", onError |-> "unset"]

NoReturn == [returned |-> FALSE, value |-> <<>>]
Returned(v) == [returned |-> TRUE, value |-> v]

InitCall ==
    /\ pc = "ready"
    /\ fn = "none"
    /\ options = NoOptions
    /\ errors = <<>>
    /\ values = <<>>
    /\ outcome = "none"
    /\ ret = NoReturn
    /\ message = <<>>
    /\ onErrorCalls = <<>>
    /\ events = <<>>

InitWide ==
    /\ schema \in Schemas(1, WideTypeStrs)
    /\ env \in {<<>>} \cup { [k \in {schema[1].key} |-> r] : r \in WideRaw }

InitMulti ==
    /\ schema \in UNION { Schemas(n, NarrowTypeStrs) : n \in 0..MaxKeys }
    /\ env \in Envs(NarrowRaw)

Init == (InitWide \/ InitMulti) /\ InitCall

----------------------------------------------------------------------------
(* The exported functions *)

\* const { throwOnError = true, ... } = options
ThrowOnError(opts) == opts.throwOnError # "false"

\* createEnvValidator(schema, { throwOnError, env, onError })
createEnvValidator(name, opts) ==
    LET st == createEnvValidatorLoop(schema, env, 1, EmptyLocals)
        failed == Len(st.errors) > 0
        called == failed /\ opts.onError = "supplied"
        thrown == failed /\ ThrowOnError(opts)
    IN  /\ pc = "ready"
        /\ pc' = "done"
        /\ fn' = name
        /\ options' = opts
        /\ errors' = st.errors
        /\ values' = st.values
        /\ IF st.raised
           THEN /\ outcome' = "TypeError"
                /\ ret' = NoReturn
                /\ message' = <<>>
                /\ onErrorCalls' = <<>>
                /\ events' = <<"TypeError">>
           ELSE /\ onErrorCalls' = IF called THEN <<st.errors>> ELSE <<>>
                /\ outcome' = IF thrown THEN "Error" ELSE "returned"
                /\ message' = IF thrown THEN FullMessage(st.errors) ELSE <<>>
                /\ ret' = IF thrown THEN NoReturn ELSE Returned(st.values)
                /\ events' = (IF called THEN <<"onError">> ELSE <<>>)
                               \o (IF thrown THEN <<"throw">> ELSE <<"return">>)
        /\ UNCHANGED <<schema, env>>

CreateEnvValidator == \E opts \in OptionBundles : createEnvValidator("createEnvValidator", opts)

\* defineEnv(schema, options) returns createEnvValidator(schema, options)
DefineEnv == \E opts \in OptionBundles : createEnvValidator("defineEnv", opts)

\* seeded fault: valid: errors.length <= 1
ValidFlag_OffByOne(errs) == Len(errs) <= 1

\* valid: errors.length === 0
ValidFlag(errs) == Len(errs) = 0

\* validateEnv(schema, env)
ValidateEnv ==
    LET st == validateEnvLoop(schema, env, 1, EmptyLocals)
    IN  /\ pc = "ready"
        /\ pc' = "done"
        /\ fn' = "validateEnv"
        /\ options' = NoOptions
        /\ errors' = st.errors
        /\ values' = st.values
        /\ message' = <<>>
        /\ onErrorCalls' = <<>>
        /\ IF st.raised
           THEN /\ outcome' = "TypeError"
                /\ ret' = NoReturn
                /\ events' = <<"TypeError">>
           ELSE /\ outcome' = "returned"
                /\ ret' = Returned([valid |-> ValidFlag(st.errors),
                                     errors |-> st.errors,
                                     values |-> st.values])
                /\ events' = <<"return">>
        /\ UNCHANGED <<schema, env>>

Next == CreateEnvValidator \/ DefineEnv \/ ValidateEnv

Spec == Init /\ [][Next]_vars

----------------------------------------------------------------------------
(* Vocabulary of the properties *)

Done == pc = "done"
\* the call ended by leaving the loop with a TypeError
Crashed == outcome = "TypeError"
Entries == 1..Len(schema)
KeyOf(i) == schema[i].key
Raw(i) == Get(env, KeyOf(i))

\* the descriptor has a trailing '?'
HasMark(i) == Len(schema[i].typeStr) > 0
              /\ schema[i].typeStr[Len(schema[i].typeStr)] = "?"
\* the descriptor with one trailing '?' removed, if any
BaseTag(i) ==
    IF HasMark(i)
    THEN [j \in 1..(Len(schema[i].typeStr) - 1) |-> schema[i].typeStr[j]]
    ELSE schema[i].typeStr
\* the raw value is absent or the empty string
AbsentOrEmpty(i) == Raw(i) = Undefined \/ Raw(i) = StringValue(<<>>)

ErrorsFor(k) == {j \in 1..Len(errors) : errors[j].key = k}
IsCreate == fn \in {"createEnvValidator", "defineEnv"}

----------------------------------------------------------------------------
(* C1 *)

C1_Calls == Done /\ (fn = "validateEnv" \/ (IsCreate /\ options.throwOnError = "false"))

C1_MissingReason(k) ==
    IF fn = "validateEnv"
    THEN <<"Required: \"">> \o k \o <<"\" is missing">>
    ELSE <<"Required environment variable \"">> \o k \o <<"\" is missing">>

C1_Body ==
    \A i \in Entries :
        (~HasMark(i) /\ AbsentOrEmpty(i)) =>
            /\ Cardinality(ErrorsFor(KeyOf(i))) = 1
            /\ \A j \in ErrorsFor(KeyOf(i)) :
                  errors[j].reason = C1_MissingReason(KeyOf(i))
            /\ KeyOf(i) \notin DOMAIN values

\* C1: after validateEnv, and after createEnvValidator with
\* throwOnError=false, every schema entry without a trailing '?' whose raw
\* value is absent or empty has exactly one error record, a 'missing' one
\* carrying its key, and no entry in the value mapping.
C1_RequiredMissingIsReported == C1_Calls => C1_Body

\* the same, of the calls whose loop ran to its end
C1_UnlessCrashed == (C1_Calls /\ ~Crashed) => C1_Body

----------------------------------------------------------------------------
(* C2 *)

C2_Body ==
    \A i \in Entries :
        (HasMark(i) /\ AbsentOrEmpty(i)) =>
            /\ ErrorsFor(KeyOf(i)) = {}
            /\ KeyOf(i) \in DOMAIN values
            /\ values[KeyOf(i)] = Undefined

\* C2: after a validation, every schema entry with a trailing '?' whose raw
\* value is absent or empty has no error record and is a key of the value
\* mapping, mapped to undefined.
C2_OptionalMissingIsUndefined == Done => C2_Body

\* the same, of the calls whose loop ran to its end, for every key but
\* __proto__
C2_UnlessCrashed ==
    (Done /\ ~Crashed) =>
        \A i \in Entries :
            (KeyOf(i) # KeyProto /\ HasMark(i) /\ AbsentOrEmpty(i)) =>
                /\ ErrorsFor(KeyOf(i)) = {}
                /\ KeyOf(i) \in DOMAIN values
                /\ values[KeyOf(i)] = Undefined

----------------------------------------------------------------------------
(* C3 *)

\* C3: validateEnv never raises: it ends by returning the aggregate result,
\* whose flag tells whether the error list is empty and whose value mapping
\* holds no key of the error list.
C3_ValidateEnvNeverRaises ==
    (Done /\ fn = "validateEnv") =>
        /\ outcome = "returned"
        /\ ret.returned
        /\ ret.value.valid = (Len(ret.value.errors) = 0)
        /\ \A j \in 1..Len(ret.value.errors) :
              ret.value.errors[j].key \notin DOMAIN ret.value.values

----------------------------------------------------------------------------
(* C4 *)

\* the message the claim describes, built from the last line backwards
RECURSIVE C4_Bullets(_)
C4_Bullets(k) ==
    IF k = 0 THEN <<>>
    ELSE C4_Bullets(k - 1) \o (IF k > 1 THEN <<"\n">> ELSE <<>>)
         \o <<"  \\u2022 ">> \o errors[k].key \o <<": ">> \o errors[k].reason

C4_Body ==
    /\ outcome = "Error"
    /\ ~ret.returned
    /\ message = <<"Environment validation failed:", "\n">> \o C4_Bullets(Len(errors))

C4_Calls == Done /\ IsCreate /\ Len(errors) > 0 /\ options.throwOnError # "false"

\* C4: when createEnvValidator has recorded at least one error and
\* throwOnError is true or unspecified, the call raises the composite error
\* and returns nothing; the message is the header and one bullet line
\* "key: reason" per error record, newline-joined, in the order of the list.
C4_ThrowsCompositeError == C4_Calls => C4_Body

\* the same, of the calls whose loop ran to its end
C4_UnlessCrashed == (C4_Calls /\ ~Crashed) => C4_Body

----------------------------------------------------------------------------
(* C5 *)

\* entry i validated: its raw value is present and coerces to its base tag
Coerces(i) == ~Falsy(Raw(i)) /\ validateValue(Raw(i), BaseTag(i)).valid

C5_Body ==
    /\ outcome = "returned"
    /\ ret.returned
    /\ \A k \in DOMAIN ret.value :
          /\ ErrorsFor(k) = {}
          /\ \E i \in Entries :
                /\ KeyOf(i) = k
                /\ \/ Coerces(i)
                   \/ (HasMark(i) /\ AbsentOrEmpty(i) /\ ret.value[k] = Undefined)

C5_Calls == Done /\ IsCreate /\ options.throwOnError = "false"

\* C5: createEnvValidator with throwOnError=false returns; the mapping it
\* returns has entries only for keys that validated and for absent optional
\* keys (mapped to undefined), and none for a key of an error record.
C5_NoThrowReturnsPartialValues == C5_Calls => C5_Body

\* the same, of the calls whose loop ran to its end
C5_UnlessCrashed == (C5_Calls /\ ~Crashed) => C5_Body

----------------------------------------------------------------------------
(* C6 *)

C6_Body ==
    /\ Len(errors) = 0 => onErrorCalls = <<>>
    /\ Len(errors) > 0 =>
          /\ onErrorCalls = <<errors>>
          /\ options.throwOnError # "false" => events = <<"onError", "throw">>
          /\ options.throwOnError = "false" => events = <<"onError", "return">>

C6_Calls == Done /\ IsCreate /\ options.onError = "supplied"

\* C6: a supplied onError is invoked exactly once, with the whole error
\* list, when an error was recorded and never otherwise; the invocation
\* precedes the raise (throwOnError true or unset) or the return
\* (throwOnError false).
C6_OnErrorCalledOnce == C6_Calls => C6_Body

\* the same, of the calls whose loop ran to its end
C6_UnlessCrashed == (C6_Calls /\ ~Crashed) => C6_Body

----------------------------------------------------------------------------
(* C7 *)

\* the error list and the value mapping a completed pass produced
PassErrors == IF fn = "validateEnv" THEN ret.value.errors ELSE errors
PassValues == IF fn = "validateEnv" THEN ret.value.values ELSE values
PassErrorKeys == {PassErrors[j].key : j \in 1..Len(PassErrors)}

\* C7: in the result of every validation pass no key has both an error
\* record and an entry of the value mapping, and an optional key whose raw
\* value is absent or empty is in the value mapping, mapped to undefined,
\* and not in the error list.
C7_ErrorsAndValuesDisjoint ==
    (Done /\ ~Crashed) =>
        /\ PassErrorKeys \cap DOMAIN PassValues = {}
        /\ \A i \in Entries :
              (HasMark(i) /\ AbsentOrEmpty(i)) =>
                  /\ KeyOf(i) \in DOMAIN PassValues
                  /\ PassValues[KeyOf(i)] = Undefined
                  /\ KeyOf(i) \notin PassErrorKeys

\* the same for every key but __proto__
C7_OrdinaryKeys ==
    (Done /\ ~Crashed) =>
        /\ PassErrorKeys \cap DOMAIN PassValues = {}
        /\ \A i \in Entries :
              (KeyOf(i) # KeyProto /\ HasMark(i) /\ AbsentOrEmpty(i)) =>
                  /\ KeyOf(i) \in DOMAIN PassValues
                  /\ PassValues[KeyOf(i)] = Undefined
                  /\ KeyOf(i) \notin PassErrorKeys

----------------------------------------------------------------------------
(* C8 *)

KnownTags == {T_string, T_number, T_boolean, T_json}

\* entry i fails validation
Fails(i) ==
    \/ ~HasMark(i) /\ AbsentOrEmpty(i)
    \/ ~Falsy(Raw(i)) /\ ~validateValue(Raw(i), BaseTag(i)).valid

----------------------------------------------------------------------------
(* C9 *)

\* s equals the lower-case literal lit when case is ignored
C9_UpperOf(c) ==
    CASE c = "t" -> "T" [] c = "r" -> "R" [] c = "u" -> "U" [] c = "e" -> "E"
      [] c = "f" -> "F" [] c = "a" -> "A" [] c = "l" -> "L" [] c = "s" -> "S"
      [] OTHER -> c
C9_EqIgnoreCase(s, lit) ==
    /\ Len(s) = Len(lit)
    /\ \A j \in 1..Len(lit) : s[j] = lit[j] \/ s[j] = C9_UpperOf(lit[j])

C9_IsTrue(s) == C9_EqIgnoreCase(s, <<"t","r","u","e">>) \/ s = <<"1">>
C9_IsFalse(s) == C9_EqIgnoreCase(s, <<"f","a","l","s","e">>) \/ s = <<"0">>

\* the entries of type boolean with a present, non-empty string, under a key
\* whose coerced value the mapping stores as an entry (any key but __proto__)
C9_Cases ==
    {i \in Entries : /\ KeyOf(i) # KeyProto
                      /\ BaseTag(i) = <<"b","o","o","l","e","a","n">>
                      /\ Raw(i).kind = "string"
                      /\ Raw(i).val # <<>>}

\* C9 (read off the passes whose loop ran to its end; a string never makes
\* the loop raise): a present, non-empty string of type boolean yields true when it is
\* "true" in any case or "1", false when it is "false" in any case or "0",
\* and otherwise an error whose reason names the string and the four
\* accepted forms; no string yields both.
C9_BooleanCoercion ==
    (Done /\ ~Crashed) =>
        \A i \in C9_Cases :
            LET s == Raw(i).val
                k == KeyOf(i)
            IN  /\ ~(C9_IsTrue(s) /\ C9_IsFalse(s))
                /\ C9_IsTrue(s) =>
                      (k \in DOMAIN values /\ values[k] = BooleanValue(TRUE)
                       /\ ErrorsFor(k) = {})
                /\ C9_IsFalse(s) =>
                      (k \in DOMAIN values /\ values[k] = BooleanValue(FALSE)
                       /\ ErrorsFor(k) = {})
                /\ (~C9_IsTrue(s) /\ ~C9_IsFalse(s)) =>
                      /\ k \notin DOMAIN values
                      /\ Cardinality(ErrorsFor(k)) = 1
                      /\ \A j \in ErrorsFor(k) : errors[j].reason =
                            <<"\"">> \o s \o <<"\"",
                              " is not a valid boolean (use 'true', 'false', '1', or '0')">>

\* "TRUE" was coerced to true
C9_Witness ==
    /\ Done /\ ~Crashed
    /\ \E i \in C9_Cases :
          /\ Raw(i).val = <<"T","R","U","E">>
          /\ values[KeyOf(i)] = BooleanValue(TRUE)

----------------------------------------------------------------------------
(* C10 *)

C10_Body ==
    \A i \in Entries :
        (BaseTag(i) \notin KnownTags /\ ~Falsy(Raw(i))) =>
            /\ Cardinality(ErrorsFor(KeyOf(i))) = 1
            /\ \A j \in ErrorsFor(KeyOf(i)) :
                  errors[j].reason = <<"Unknown type: ">> \o BaseTag(i)
            /\ KeyOf(i) \notin DOMAIN values

\* C10: after a validation, every schema entry whose base tag is none of
\* string, number, boolean, json and whose raw value is present and
\* non-empty has one error record, with reason "Unknown type: <tag>", and no
\* entry in the value mapping, whether or not the descriptor is optional.
C10_UnknownTypeIsReported == Done => C10_Body

\* the same, of the calls whose loop ran to its end
C10_UnlessCrashed == (Done /\ ~Crashed) => C10_Body

----------------------------------------------------------------------------
(* C11 *)

\* the keys of the failing entries among the first n, in schema order
RECURSIVE C11_FailingKeys(_)
C11_FailingKeys(n) ==
    IF n = 0 THEN <<>>
    ELSE IF Fails(n) THEN Append(C11_FailingKeys(n - 1), KeyOf(n))
    ELSE C11_FailingKeys(n - 1)

C11_KeysOf(errs) == [j \in 1..Len(errs) |-> errs[j].key]

\* the succeeding entries have their coerced values
C11_Coerced(vals, ordinaryOnly) ==
    \A i \in Entries :
        (Coerces(i) /\ (ordinaryOnly => KeyOf(i) # KeyProto)) =>
            /\ KeyOf(i) \in DOMAIN vals
            /\ vals[KeyOf(i)] = validateValue(Raw(i), BaseTag(i)).parsed

C11_Body(ordinaryOnly) ==
    /\ fn = "validateEnv" =>
          /\ ret.returned
          /\ C11_KeysOf(ret.value.errors) = C11_FailingKeys(Len(schema))
          /\ C11_Coerced(ret.value.values, ordinaryOnly)
    /\ (IsCreate /\ options.throwOnError # "false"
           /\ C11_FailingKeys(Len(schema)) # <<>>) =>
          /\ outcome = "Error"
          /\ C11_KeysOf(errors) = C11_FailingKeys(Len(schema))
          /\ message = <<"Environment validation failed:", "\n">>
                          \o C4_Bullets(Len(errors))

\* C11: validateEnv returns one error record per failing key, in schema
\* order, and the coerced value of every succeeding key; the message
\* createEnvValidator raises lists the reason of every failing key in the
\* same order.
C11_ErrorsAggregated == Done => C11_Body(FALSE)

\* the same, of the calls whose loop ran to its end and of the values under
\* every key but __proto__
C11_UnlessCrashed == (Done /\ ~Crashed) => C11_Body(TRUE)

----------------------------------------------------------------------------
(* C12 *)

\* what the other layer computes on the same schema and environment
C12_Validate == validateEnvLoop(schema, env, 1, EmptyLocals)
C12_Create == createEnvValidatorLoop(schema, env, 1, EmptyLocals)

C12_IsMissing(e) == Falsy(e.received)

\* two error lists agree record by record, but for the wording of the
\* reason of a required-but-missing error
C12_SameErrors(ce, ve) ==
    /\ Len(ce) = Len(ve)
    /\ \A j \in 1..Len(ce) :
          /\ ce[j].key = ve[j].key
          /\ ce[j].expected = ve[j].expected
          /\ ce[j].received = ve[j].received
          /\ IF C12_IsMissing(ce[j])
             THEN /\ ce[j].reason # ve[j].reason
                  /\ ce[j].reason = <<"Required environment variable \"">>
                                       \o ce[j].key \o <<"\" is missing">>
                  /\ ve[j].reason = <<"Required: \"">>
                                       \o ve[j].key \o <<"\" is missing">>
             ELSE ce[j].reason = ve[j].reason

\* C12: on the same schema and environment createEnvValidator with
\* throwOnError=false returns the value mapping that validateEnv returns as
\* `values`, and the two error lists agree in length, order, key, expected
\* descriptor, received value and reason, except that the reason of a
\* required-but-missing error is worded differently.
C12_LayersAgree ==
    /\ (Done /\ IsCreate /\ options.throwOnError = "false") =>
          /\ Crashed <=> C12_Validate.raised
          /\ ~Crashed =>
                /\ ret.value = C12_Validate.values
                /\ C12_SameErrors(errors, C12_Validate.errors)
    /\ (Done /\ fn = "validateEnv") =>
          /\ Crashed <=> C12_Create.raised
          /\ ~Crashed =>
                /\ ret.value.values = C12_Create.values
                /\ C12_SameErrors(C12_Create.errors, ret.value.errors)

\* createEnvValidator with throwOnError=false returned a value although it
\* recorded a missing key and a failed coercion
C12_Witness ==
    /\ Done /\ IsCreate /\ options.throwOnError = "false" /\ ret.returned
    /\ \E j \in 1..Len(errors) : C12_IsMissing(errors[j])
    /\ \E j \in 1..Len(errors) : ~C12_IsMissing(errors[j])

----------------------------------------------------------------------------
(* C13 *)

\* the environment without key k
C13_Without(k) == [x \in (DOMAIN env) \ {k} |-> env[x]]

\* the run of the loop of the call on the environment without key k
C13_LoopWithout(k) ==
    IF fn = "validateEnv"
    THEN validateEnvLoop(schema, C13_Without(k), 1, EmptyLocals)
    ELSE createEnvValidatorLoop(schema, C13_Without(k), 1, EmptyLocals)

\* what a run records about key k: the reasons of its error records and its
\* entry of the value mapping
C13_Outcome(errs, vals, k) ==
    [reasons |-> {errs[j].reason : j \in {x \in 1..Len(errs) : errs[x].key = k}},
     entry |-> IF k \in DOMAIN vals THEN <<vals[k]>> ELSE <<>>]

\* the entry i of the schema has the empty string as its own value
C13_IsEmpty(i) == KeyOf(i) \in DOMAIN env /\ env[KeyOf(i)] = <<>>

C13_Body(i) ==
    /\ ~C13_LoopWithout(KeyOf(i)).raised
    /\ C13_Outcome(PassErrors, PassValues, KeyOf(i))
         = C13_Outcome(C13_LoopWithout(KeyOf(i)).errors,
                       C13_LoopWithout(KeyOf(i)).values, KeyOf(i))
    /\ BaseTag(i) = T_string =>
          (KeyOf(i) \in DOMAIN PassValues => PassValues[KeyOf(i)] # StringValue(<<>>))

\* C13: a key whose value is the empty string has the same outcome (error
\* or not, reason, entry of the value mapping) as the same call has with
\* the key absent from the environment, and a string entry never validates
\* to the empty string.
C13_EmptyIsAbsent ==
    (Done /\ ~Crashed) => \A i \in Entries : C13_IsEmpty(i) => C13_Body(i)

\* the same for the keys that Object.prototype does not define
C13_OwnKeysOnly ==
    (Done /\ ~Crashed) =>
        \A i \in Entries :
            (C13_IsEmpty(i) /\ KeyOf(i) \notin ObjectPrototypeKeys \cup {KeyProto})
                => C13_Body(i)

----------------------------------------------------------------------------
(* C14 *)

\* every descriptor is 'string' and every schema key has a non-empty string
C14_Case ==
    \A i \in Entries :
        /\ schema[i].typeStr = T_string
        /\ KeyOf(i) \in DOMAIN env
        /\ env[KeyOf(i)] # <<>>

SchemaKeySet == {KeyOf(i) : i \in Entries}

C14_Body ==
    /\ ret.returned
    /\ ret.value.valid
    /\ ret.value.errors = <<>>
    /\ DOMAIN ret.value.values = SchemaKeySet
    /\ \A k \in SchemaKeySet : ret.value.values[k] = StringValue(env[k])

\* C14: for a schema of 'string' descriptors only and an environment giving
\* every schema key a non-empty string, validateEnv returns valid = true, no
\* errors and the environment restricted to the keys of the schema.
C14_StringRoundTrip == (Done /\ fn = "validateEnv" /\ C14_Case) => C14_Body

\* the same for the schemas without the key __proto__
C14_OrdinaryKeys ==
    (Done /\ fn = "validateEnv" /\ C14_Case /\ KeyProto \notin SchemaKeySet)
        => C14_Body

----------------------------------------------------------------------------
(* C15 *)

\* the base tag of entry i is none of the four the engine knows and its raw
\* value is absent or empty
C15_Case(i) == BaseTag(i) \notin KnownTags /\ AbsentOrEmpty(i)

C15_NoEmptyReason(errs) == \A j \in 1..Len(errs) : errs[j].reason # EmptyReason

C15_Body(ordinaryOnly) ==
    /\ ~Crashed => C15_NoEmptyReason(PassErrors)
    /\ \A i \in Entries :
          (C15_Case(i) /\ (ordinaryOnly => KeyOf(i) # KeyProto)) =>
              IF Crashed THEN FALSE
              ELSE IF HasMark(i)
              THEN /\ KeyOf(i) \notin PassErrorKeys
                   /\ KeyOf(i) \in DOMAIN PassValues
                   /\ PassValues[KeyOf(i)] = Undefined
              ELSE \A j \in 1..Len(PassErrors) :
                      PassErrors[j].key = KeyOf(i) =>
                          /\ PassErrors[j].reason # UnknownTypeReason(BaseTag(i))
                          /\ PassErrors[j].reason \in
                                {CreateMissingReason(KeyOf(i)),
                                 ValidateMissingReason(KeyOf(i))}
                          /\ \A m \in 1..Len(PassErrors) :
                                PassErrors[m].key = KeyOf(i) => m = j

C15_Calls == Done /\ (fn = "validateEnv" \/ IsCreate)

\* C15: an entry with an unrecognized base tag and an absent or empty value
\* yields only the 'missing' error when required, and no error and an
\* undefined entry of the value mapping when optional; the reason 'Value is
\* empty or undefined' is in no error list.
C15_PresenceMasksTag == C15_Calls => C15_Body(FALSE)

\* the same, of the calls whose loop ran to its end and of every key but
\* __proto__
C15_UnlessCrashed == (C15_Calls /\ ~Crashed) => C15_Body(TRUE)

\* a schema whose only descriptor is unrecognized passes with valid = true
C15_InvalidDescriptorPasses ==
    /\ Done /\ fn = "validateEnv" /\ ret.returned /\ ret.value.valid
    /\ Len(schema) = 1 /\ BaseTag(1) \notin KnownTags

----------------------------------------------------------------------------
(* C16 *)

C16_Accounted(k) ==
    LET recs == {j \in 1..Len(PassErrors) : PassErrors[j].key = k}
    IN  \/ Cardinality(recs) = 1 /\ k \notin DOMAIN PassValues
        \/ recs = {} /\ k \in DOMAIN PassValues

C16_Body(keys) ==
    /\ \A k \in keys : C16_Accounted(k)
    /\ PassErrorKeys \cup DOMAIN PassValues \subseteq SchemaKeySet

\* C16: after the loop of createEnvValidator or validateEnv every key of the
\* schema has exactly one error record or exactly one entry of the value
\* mapping, never both or neither, the two counts add up to the number of
\* schema keys, and no other key is in the error list or the value mapping.
C16_EveryKeyAccountedOnce ==
    (Done /\ ~Crashed) =>
        /\ C16_Body(SchemaKeySet)
        /\ Len(PassErrors) + Cardinality(DOMAIN PassValues) = Len(schema)

\* the same for every key but __proto__
C16_OrdinaryKeys ==
    (Done /\ ~Crashed) =>
        /\ C16_Body(SchemaKeySet \ {KeyProto})
        /\ KeyProto \notin SchemaKeySet =>
              Len(PassErrors) + Cardinality(DOMAIN PassValues) = Len(schema)

====
